---- MODULE Spec2Model ----
(***************************************************************************)
(* Model of src/main.py: the tic-tac-toe backend.                          *)
(*                                                                         *)
(* The HTTP handlers are coroutines on one event loop.  The store client   *)
(* is synchronous, so a handler runs without suspension from the line      *)
(* after `await request.json()` up to the first `await ws.send_json(..)`   *)
(* inside broadcast_game_update: the store read, the checks, the store     *)
(* write, the tallies, the broadcast's own read and the first send are one *)
(* atomic step.  Every later send of the same broadcast is a step of its   *)
(* own, interleaved with every other handler.  The handler of a viewer's    *)
(* socket runs from accept to its own first send, in which it is suspended *)
(* like a broadcast; what it does when that send ends is another step.     *)
(***************************************************************************)
EXTENDS Integers, Sequences, FiniteSets, TLC

VARIABLES
    games,               \* rows of the store's table "games"
    stats,               \* rows of the store's table "stats"
    active_connections,  \* game id -> sequence of weak handles (socket names)
    sock,                \* per viewer socket object: its handler's position and game id
    tasks,               \* broadcasts suspended in a send, with the handles they
                         \* have yet to visit: <<[msg, todo]>>
    event,               \* what the step just taken did: the response decided, the
                         \* identity an accepted request was verified as, and the
                         \* send_json call made (socket, message, outcome)
    call                 \* a call of check_win on its own: arguments and return value

vars == <<games, stats, active_connections, sock, tasks, event, call>>

----------------------------------------------------------------------------
(* Values *)

None == "None"

\* Identities that requests are verified as (user["id"]).
Users == {"u1", "u2", "u3"}

\* user["first_name"] of each identity.
NameOf == [u \in Users |-> CASE u = "u1" -> "Ann" [] u = "u2" -> "Bob" [] OTHER -> "Cid"]

\* The ids uuid4()[:8] can produce.  A request that names an id before
\* create_game has drawn it is a request on an unknown game.
IdPool == {"g1"}
RequestIds == IdPool

\* range(3)
Idx == 0..2

\* (row, col) pairs a make-move request may carry: every cell, and the
\* nearest pair beyond each of the four limits tested by line 339.
MoveCoords == (Idx \X Idx) \cup {<<-1, 0>>, <<3, 0>>, <<0, -1>>, <<0, 3>>}

\* Viewer socket objects.
Sockets == {"s1", "s2"}

\* Broadcasts that may be suspended in a send, with handles left to visit,
\* at the same time.
MaxTasks == 2

\* [[None]*3 for _ in range(3)]
initial_board == [i \in Idx |-> [j \in Idx |-> None]]

NoMsg == [type |-> "none"]

\* lookups: the id-uniqueness lookups a create-game made; failed: how many of
\* them raised.
NoEvent ==
    [op |-> None, status |-> None, detail |-> None, user |-> None,
     ws |-> None, sent |-> None, msg |-> NoMsg, lookups |-> 0, failed |-> 0]

\* The store calls of one request that can raise: the handler's read of the
\* game, its write, the two tally updates of a decided game in the order
\* they are made, the read of the broadcast, and the insert of create_game.
StoreCalls == {"select", "update", "stats_first", "stats_second", "reselect", "insert"}

\* No check_win call is being looked at.
NoCall == [board |-> initial_board, symbol |-> None, returned |-> FALSE, result |-> FALSE]

----------------------------------------------------------------------------
(* Store gateway *)

\* result.data of select("*").eq("id", game_id): empty when there is no row.
\* When the store call raises (down) the function returns None, which its
\* callers take for "no row".
get_game_by_id(gs, game_id, down) == IF down THEN {} ELSE {r \in gs : r.id = game_id}

\* game_list[0]
Row(game_list) == CHOOSE r \in game_list : TRUE

\* not result.data; False when the store call raises (down).
is_game_id_unique(gs, game_id, down) ==
    IF down THEN FALSE ELSE {r \in gs : r.id = game_id} = {}

\* table("games").update(data).eq("id", game_id): the named columns are
\* overwritten in the row of that id, the others are kept.  When the store
\* call raises (down) nothing is written and the exception is swallowed.
update_game(gs, game_id, data, down) ==
    IF down THEN gs
    ELSE {IF r.id = game_id
             THEN [f \in DOMAIN r |-> IF f \in DOMAIN data THEN data[f] ELSE r[f]]
             ELSE r : r \in gs}

\* Mutation of update_stats: the counter of an existing row is written as 1.
update_stats_reset(st, user_id, username, field, down) ==
    IF user_id = None \/ down THEN st
    ELSE IF \E r \in st : r.user_id = user_id
            THEN {IF r.user_id = user_id THEN [r EXCEPT ![field] = 1] ELSE r : r \in st}
            ELSE st \cup {[[user_id |-> user_id, username |-> username,
                            wins |-> 0, losses |-> 0, draws |-> 0]
                              EXCEPT ![field] = 1]}

\* Mutation of update_stats_raises: the exception is passed on to make_move.
update_stats_reraises(down) == down

\* Lines 137-138: an exception of a store call of update_stats is caught
\* there and logged; none reaches make_move.
update_stats_raises(down) == FALSE

\* Read-modify-write of one counter; the row is inserted with the counter at
\* 1 (the table's other counters at their default 0) when it does not exist.
\* When a store call raises (down) the table is left as it was.
update_stats(st, user_id, username, field, down) ==
    IF user_id = None \/ down THEN st
    ELSE LET res == {r \in st : r.user_id = user_id} IN
         IF res # {}
            THEN LET current == (CHOOSE r \in res : TRUE)[field] IN
                 {IF r.user_id = user_id THEN [r EXCEPT ![field] = current + 1] ELSE r
                    : r \in st}
            ELSE st \cup {[[user_id |-> user_id, username |-> username,
                            wins |-> 0, losses |-> 0, draws |-> 0]
                              EXCEPT ![field] = 1]}

----------------------------------------------------------------------------
(* Board engine *)

\* Mutation of check_win: the diagonal from the top right is not looked at.
check_win_one_diagonal(board, symbol) ==
    \/ \E i \in Idx : \/ \A j \in Idx : board[i][j] = symbol
                      \/ \A j \in Idx : board[j][i] = symbol
    \/ \A i \in Idx : board[i][i] = symbol

\* Mutation of check_win: the columns are not looked at.
check_win_no_columns(board, symbol) ==
    \/ \E i \in Idx : \A j \in Idx : board[i][j] = symbol
    \/ \A i \in Idx : board[i][i] = symbol
    \/ \A i \in Idx : board[i][2 - i] = symbol

\* Lines 144-149, on a board of 3 rows of 3 cells (the except-branch of lines
\* 150-152 is for boards of another shape).
check_win(board, symbol) ==
    \/ \E i \in Idx : \/ \A j \in Idx : board[i][j] = symbol
                      \/ \A j \in Idx : board[j][i] = symbol
    \/ \A i \in Idx : board[i][i] = symbol
    \/ \A i \in Idx : board[i][2 - i] = symbol

\* all(cell is not None for r in board for cell in r)
board_full(board) == \A i \in Idx : \A j \in Idx : board[i][j] # None

\* Mutation of decide_winner: the full board is tested before the line.
decide_winner_draw_first(board, symbol) ==
    IF board_full(board) THEN "draw"
    ELSE IF check_win(board, symbol) THEN symbol
    ELSE None

\* winner of make_move, lines 354-358
decide_winner(board, symbol) ==
    IF check_win(board, symbol) THEN symbol
    ELSE IF board_full(board) THEN "draw"
    ELSE None

\* Mutation of next_turn: the mover keeps the turn.
next_turn_kept(game, user, winner) == IF winner # None THEN None ELSE user

\* Mutation of next_turn: the turn is passed on even when the game is decided.
next_turn_always(game, user, winner) ==
    IF user = game.creator_id THEN game.opponent_id ELSE game.creator_id

\* next_turn of make_move, lines 359-361
next_turn(game, user, winner) ==
    IF winner # None THEN None
    ELSE IF user = game.creator_id THEN game.opponent_id ELSE game.creator_id

\* The tallies of make_move, lines 367-382; f holds the store calls that
\* raise in this request.
record_result(st, game, winner, f) ==
    LET c_id == game.creator_id
        o_id == game.opponent_id
        c_name == game.creator_name
        o_name == game.opponent_name
        d1 == "stats_first" \in f
        d2 == "stats_second" \in f
    IN  IF winner = "X" THEN
            LET s1 == update_stats(st, c_id, c_name, "wins", d1)
            IN  IF o_id # None THEN update_stats(s1, o_id, o_name, "losses", d2) ELSE s1
        ELSE IF winner = "O" /\ o_id # None THEN
            update_stats(update_stats(st, o_id, o_name, "wins", d1),
                         c_id, c_name, "losses", d2)
        ELSE IF winner = "draw" THEN
            LET s1 == update_stats(st, c_id, c_name, "draws", d1)
            IN  IF o_id # None THEN update_stats(s1, o_id, o_name, "draws", d2) ELSE s1
        ELSE st

\* Whether an exception of the tallies of make_move reaches its handler
\* (lines 387-389).
record_result_raises(winner, f) ==
    /\ winner # None
    /\ \/ update_stats_raises("stats_first" \in f)
       \/ update_stats_raises("stats_second" \in f)

----------------------------------------------------------------------------
(* Connection registry and broadcast *)

\* {"type": "game", **game}
GameMsg(game) ==
    [f \in DOMAIN game \cup {"type"} |-> IF f = "type" THEN "game" ELSE game[f]]

\* ref() of a weak handle: the socket object, or None once it was collected.
\* A handler's frame keeps its own socket alive, so only the socket of a
\* handler that has returned can be collected.
deref(ws) == IF sock[ws].state = "collected" THEN None ELSE ws

\* The connection of the socket is up: its handler is suspended in its first
\* send ("greeting") or in its receive loop ("open").
connected(ws) == sock[ws].state \in {"greeting", "open"}

\* [ref for ref in refs if ref() is not None]
live_refs(refs) == SelectSeq(refs, LAMBDA ws : deref(ws) # None)

\* The for-loop of broadcast_game_update from where it stands to its next
\* suspension: handles whose ref() is None are passed over without a send.
RECURSIVE skip_dead(_)
skip_dead(todo) ==
    IF todo = <<>> THEN <<>>
    ELSE IF deref(Head(todo)) = None THEN skip_dead(Tail(todo))
    ELSE todo

\* Mutation of run_sends: a send that raises ends the loop.
run_sends_abort(t, fail) ==
    LET todo == skip_dead(t.todo) IN
    IF todo = <<>>
       THEN [done |-> TRUE, ws |-> None, sent |-> None, task |-> t]
       ELSE LET ok == connected(Head(todo)) /\ ~fail IN
            [done |-> ~ok \/ Tail(todo) = <<>>, ws |-> Head(todo),
             sent |-> IF ok THEN "ok" ELSE "error",
             task |-> [t EXCEPT !.todo = IF ok THEN Tail(todo) ELSE <<>>]]

\* One stretch of the loop of lines 243-249 for the broadcast t: it ends when
\* the list is exhausted, or suspended in the send to the next live handle.
\* The send delivers unless it raises; it raises when the connection is no
\* longer up, or on a transport failure (fail).  The exception is caught.
\* After the send to the last handle of the list the loop has nothing left to
\* do and the handler nothing but to return: the broadcast is done.
run_sends(t, fail) ==
    LET todo == skip_dead(t.todo) IN
    IF todo = <<>>
       THEN [done |-> TRUE, ws |-> None, sent |-> None, task |-> t]
       ELSE [done |-> Tail(todo) = <<>>, ws |-> Head(todo),
             sent |-> IF connected(Head(todo)) /\ ~fail THEN "ok" ELSE "error",
             task |-> [t EXCEPT !.todo = Tail(todo)]]

\* Mutation of broadcast_game_update: the record is the one the store held
\* before the handler's write.
broadcast_game_update_stale(gs, game_id, fail, down) ==
    LET game_list == get_game_by_id(games, game_id, down) IN
    IF game_list = {} \/ game_id \notin DOMAIN active_connections
       THEN [done |-> TRUE, ws |-> None, sent |-> None, task |-> [msg |-> NoMsg, todo |-> <<>>]]
       ELSE run_sends([msg |-> GameMsg(Row(game_list)),
                       todo |-> active_connections[game_id]], fail)

\* broadcast_game_update(game_id) up to its first suspension, reading the
\* store as the handler has just left it (gs).  When its read raises (down)
\* nothing is sent.
broadcast_game_update(gs, game_id, fail, down) ==
    LET game_list == get_game_by_id(gs, game_id, down) IN
    IF game_list = {} \/ game_id \notin DOMAIN active_connections
       THEN [done |-> TRUE, ws |-> None, sent |-> None, task |-> [msg |-> NoMsg, todo |-> <<>>]]
       ELSE run_sends([msg |-> GameMsg(Row(game_list)),
                       todo |-> active_connections[game_id]], fail)

\* The argument of the send_json call of one stretch r of the broadcast of msg.
sent_msg(r, msg) == IF r.ws # None THEN msg ELSE NoMsg

\* A handler that has called update_game, broadcasts and answers
\* {"status": "ok"}; gs is the table as update_game left it.
Accept(op, user, gs, game_id, fail, f) ==
    LET r == broadcast_game_update(gs, game_id, fail, "reselect" \in f) IN
    /\ r.done \/ Len(tasks) < MaxTasks
    /\ games' = gs
    /\ tasks' = IF r.done THEN tasks ELSE Append(tasks, r.task)
    /\ event' = [op |-> op, status |-> "200", detail |-> "ok", user |-> user,
                 ws |-> r.ws, sent |-> r.sent, msg |-> sent_msg(r, r.task.msg),
                 lookups |-> 0, failed |-> 0]
    /\ UNCHANGED <<active_connections, sock, call>>

\* raise HTTPException(status_code, detail) before any write.
Reject(op, status, detail) ==
    /\ event' = [NoEvent EXCEPT !.op = op, !.status = status, !.detail = detail]
    /\ UNCHANGED <<games, stats, active_connections, sock, tasks, call>>

\* The generic except-branch of a handler: an exception that is not an
\* HTTPException ends the request with status 500; what was written before
\* it was raised (gs, st) stays, and what follows it is not run.
Fail(op, gs, st) ==
    /\ games' = gs
    /\ stats' = st
    /\ event' = [NoEvent EXCEPT !.op = op, !.status = "500", !.detail = "internal error"]
    /\ UNCHANGED <<active_connections, sock, tasks, call>>

----------------------------------------------------------------------------
(* HTTP handlers *)

\* The row inserted by create_game; the columns it does not name are null.
new_game(game_id, user) ==
    [id |-> game_id, creator_id |-> user, creator_name |-> NameOf[user],
     current_turn |-> user, board |-> initial_board, game_started |-> FALSE,
     opponent_id |-> None, opponent_name |-> None, winner |-> None]

\* The while-loop of lines 260-262 over the draws of uuid4, each with the
\* fate of its lookup ([id, down]): the number of the draw on which
\* is_game_id_unique returns True, 0 if it does so on none of them.
RECURSIVE first_unique(_, _, _)
first_unique(gs, draws, k) ==
    IF k > Len(draws) THEN 0
    ELSE IF is_game_id_unique(gs, draws[k].id, draws[k].down) THEN k
    ELSE first_unique(gs, draws, k + 1)

\* draws are the draws of uuid4 the while-loop went through, the loop ending
\* on the last one; then the row is inserted, unless the insert raises.
create_game(user, draws, f) ==
    /\ first_unique(games, draws, 1) = Len(draws)
    /\ LET failed == Cardinality({k \in 1..Len(draws) : draws[k].down}) IN
       IF "insert" \in f
          THEN /\ games' = games
               /\ event' = [NoEvent EXCEPT !.op = "create_game", !.status = "500",
                                           !.detail = "internal error",
                                           !.lookups = Len(draws), !.failed = failed]
          ELSE /\ games' = games \cup {new_game(draws[Len(draws)].id, user)}
               /\ event' = [NoEvent EXCEPT !.op = "create_game", !.status = "200",
                                           !.detail = "ok", !.user = user,
                                           !.lookups = Len(draws), !.failed = failed]
    /\ UNCHANGED <<stats, active_connections, sock, tasks, call>>

\* Mutation of cannot_join: a game that has an opponent can still be joined.
cannot_join_creator_only(game, user) == game.creator_id = user

\* Line 291: the game has an opponent, or the caller is its creator.
cannot_join(game, user) == game.opponent_id # None \/ game.creator_id = user

\* Line 316.
cannot_start(game) == game.opponent_id = None \/ game.game_started

\* Mutation of is_opponent: the check of line 318 is missing.
is_opponent_unchecked(game, user) == TRUE

\* Line 318.
is_opponent(game, user) == user = game.opponent_id

\* Line 339.
coords_ok(row, col) == 0 <= row /\ row <= 2 /\ 0 <= col /\ col <= 2

\* Mutation of not_your_turn: the check of line 347 is missing.
not_your_turn_unchecked(game, user) == FALSE

\* Mutation of not_your_turn: the caller is not compared with the stored turn.
not_your_turn_finished_only(game, user) == game.winner # None

\* Line 347: the game is finished, or it is another identity's turn.
not_your_turn(game, user) == game.winner # None \/ game.current_turn # user

\* Mutation of symbol_of: every mover marks "X".
symbol_of_always_x(game, user) == "X"

\* Line 349.
symbol_of(game, user) == IF user = game.creator_id THEN "X" ELSE "O"

\* Mutation of cell_taken: the check of line 351 is missing.
cell_taken_unchecked(board, row, col) == FALSE

\* Line 351.
cell_taken(board, row, col) == board[row][col] # None

join_game(user, game_id, fail, f) ==
    LET game_list == get_game_by_id(games, game_id, "select" \in f) IN
    IF game_list = {} THEN Reject("join_game", "404", "game not found")
    ELSE LET game == Row(game_list) IN
         IF cannot_join(game, user)
            THEN Reject("join_game", "400", "cannot join")
            ELSE /\ Accept("join_game", user,
                           update_game(games, game_id,
                                       [opponent_id |-> user,
                                        opponent_name |-> NameOf[user],
                                        game_started |-> FALSE],
                                       "update" \in f),
                           game_id, fail, f)
                 /\ UNCHANGED stats

start_game(user, game_id, fail, f) ==
    LET game_list == get_game_by_id(games, game_id, "select" \in f) IN
    IF game_list = {} THEN Reject("start_game", "404", "game not found")
    ELSE LET game == Row(game_list) IN
         IF cannot_start(game)
            THEN Reject("start_game", "400", "cannot start")
         ELSE IF ~is_opponent(game, user)
            THEN Reject("start_game", "403", "only the second player starts")
         ELSE /\ Accept("start_game", user,
                        update_game(games, game_id,
                                    [game_started |-> TRUE,
                                     current_turn |-> game.creator_id],
                                    "update" \in f),
                        game_id, fail, f)
              /\ UNCHANGED stats

make_move(user, game_id, row, col, fail, f) ==
    IF ~coords_ok(row, col)
       THEN Reject("make_move", "400", "bad coordinates")
    ELSE LET game_list == get_game_by_id(games, game_id, "select" \in f) IN
    IF game_list = {} THEN Reject("make_move", "404", "game not found")
    ELSE LET game == Row(game_list) IN
    IF ~game.game_started THEN Reject("make_move", "400", "game not started")
    ELSE IF not_your_turn(game, user)
       THEN Reject("make_move", "400", "not your turn")
    ELSE LET symbol == symbol_of(game, user) IN
    IF cell_taken(game.board, row, col) THEN Reject("make_move", "400", "cell occupied")
    ELSE LET board == [game.board EXCEPT ![row][col] = symbol]
             winner == decide_winner(board, symbol)
             gs == update_game(games, game_id,
                               [board |-> board,
                                current_turn |-> next_turn(game, user, winner),
                                winner |-> winner],
                               "update" \in f)
             st == record_result(stats, game, winner, f)
         IN  IF record_result_raises(winner, f)
                THEN Fail("make_move", gs, st)
                ELSE /\ Accept("make_move", user, gs, game_id, fail, f)
                     /\ stats' = st

----------------------------------------------------------------------------
(* Viewer sockets *)

\* Mutation of drop_dead_refs: the entry is deleted whatever it holds.
drop_dead_refs_and_entry(game_id) ==
    [g \in DOMAIN active_connections \ {game_id} |-> active_connections[g]]

\* The cleanup of both except-branches of game_websocket (lines 193-195 and
\* 198-200), run by the handler of a socket of game_id.
drop_dead_refs(game_id) ==
    LET refs == live_refs(active_connections[game_id]) IN
    IF refs = <<>>
       THEN [g \in DOMAIN active_connections \ {game_id} |-> active_connections[g]]
       ELSE [active_connections EXCEPT ![game_id] = refs]

\* Lines 182-184.
register(game_id, ws) ==
    IF game_id \in DOMAIN active_connections
       THEN [active_connections EXCEPT ![game_id] = Append(@, ws)]
       ELSE [g \in DOMAIN active_connections \cup {game_id} |->
                IF g = game_id THEN <<ws>> ELSE active_connections[g]]

\* game_websocket from accept to its first suspension: the handle is
\* registered and the record is read; if there is one, the handler calls
\* send_json with it and is suspended in that send, otherwise (no row, or the
\* read raised: down) it is suspended in receive_text.
ws_connect(ws, game_id, down) ==
    /\ sock[ws].state = "new"
    /\ LET game_list == get_game_by_id(games, game_id, down) IN
       /\ active_connections' = register(game_id, ws)
       /\ IF game_list # {}
             THEN /\ sock' = [sock EXCEPT ![ws] = [state |-> "greeting",
                                                   game_id |-> game_id]]
                  /\ event' = [NoEvent EXCEPT !.op = "ws_connect", !.ws = ws,
                                              !.sent = "pending",
                                              !.msg = GameMsg(Row(game_list))]
             ELSE /\ sock' = [sock EXCEPT ![ws] = [state |-> "open", game_id |-> game_id]]
                  /\ event' = [NoEvent EXCEPT !.op = "ws_connect", !.ws = ws]
    /\ UNCHANGED <<games, stats, tasks, call>>

\* The first send of game_websocket (line 188) ends: it returns and the
\* handler enters its receive loop, or it raises (fail) and the handler
\* leaves through the cleanup of lines 196-200, run on the registry as it is
\* by then.
ws_first_send(ws, fail) ==
    /\ sock[ws].state = "greeting"
    /\ IF fail
          THEN /\ active_connections' = drop_dead_refs(sock[ws].game_id)
               /\ sock' = [sock EXCEPT ![ws].state = "closed"]
               /\ event' = [NoEvent EXCEPT !.op = "ws_first_send", !.ws = ws,
                                           !.sent = "error"]
          ELSE /\ sock' = [sock EXCEPT ![ws].state = "open"]
               /\ event' = [NoEvent EXCEPT !.op = "ws_first_send", !.ws = ws,
                                           !.sent = "ok"]
               /\ UNCHANGED active_connections
    /\ UNCHANGED <<games, stats, tasks, call>>

\* receive_text raises WebSocketDisconnect: lines 191-195, then the handler returns.
ws_disconnect(ws) ==
    /\ sock[ws].state = "open"
    /\ active_connections' = drop_dead_refs(sock[ws].game_id)
    /\ sock' = [sock EXCEPT ![ws].state = "closed"]
    /\ event' = [NoEvent EXCEPT !.op = "ws_disconnect", !.ws = ws]
    /\ UNCHANGED <<games, stats, tasks, call>>

\* The socket object of a handler that has returned is freed.
collect(ws) ==
    /\ sock[ws].state = "closed"
    /\ sock' = [sock EXCEPT ![ws].state = "collected"]
    /\ event' = [NoEvent EXCEPT !.op = "collect", !.ws = ws]
    /\ UNCHANGED <<games, stats, active_connections, tasks, call>>

\* The suspended broadcast tasks[i] resumes and runs to its next send or to
\* its end.
broadcast_step(i, fail) ==
    /\ i \in 1..Len(tasks)
    /\ LET r == run_sends(tasks[i], fail)
           before == SubSeq(tasks, 1, i - 1)
           after == SubSeq(tasks, i + 1, Len(tasks))
       IN  /\ tasks' = IF r.done THEN before \o after ELSE before \o <<r.task>> \o after
           /\ event' = [NoEvent EXCEPT !.op = "broadcast", !.ws = r.ws, !.sent = r.sent,
                                       !.msg = sent_msg(r, tasks[i].msg)]
    /\ UNCHANGED <<games, stats, active_connections, sock, call>>

----------------------------------------------------------------------------
(* Specifications *)

\* The stats table as earlier games on other ids may have left it.
earlier_stats ==
    {[user_id |-> "u1", username |-> "Ann", wins |-> 1, losses |-> 0, draws |-> 1]}

\* The state after the module is loaded: both tables as the store holds
\* them, an empty registry, no broadcast under way; S are the socket objects
\* that will connect.
Start(S) ==
    /\ games = {}
    /\ stats = earlier_stats
    /\ active_connections = <<>>
    /\ sock = [ws \in S |-> [state |-> "new", game_id |-> None]]
    /\ tasks = <<>>
    /\ event = NoEvent
    /\ call = NoCall

Init == Start(Sockets)

\* The loop of create_game ending on its first draw, whose lookup succeeds.
OneDraw(game_id) == <<[id |-> game_id, down |-> FALSE]>>

CreateGame == \E user \in Users, game_id \in IdPool : create_game(user, OneDraw(game_id), {})
JoinGame ==
    \E user \in Users, game_id \in RequestIds : join_game(user, game_id, FALSE, {})
StartGame ==
    \E user \in Users, game_id \in RequestIds : start_game(user, game_id, FALSE, {})
MakeMove ==
    \E user \in Users, game_id \in RequestIds, rc \in MoveCoords :
        make_move(user, game_id, rc[1], rc[2], FALSE, {})

\* The requests on the store, with no viewer connected.
Next == CreateGame \/ JoinGame \/ StartGame \/ MakeMove

Spec == Init /\ [][Next]_vars

\* check_win on its own, called once on any board of 3 rows of 3 cells, each
\* empty or marked, and either symbol.
Boards == [Idx -> [Idx -> {None, "X", "O"}]]

InitCheckWin ==
    /\ games = {}
    /\ stats = earlier_stats
    /\ active_connections = <<>>
    /\ sock = [ws \in Sockets |-> [state |-> "new", game_id |-> None]]
    /\ tasks = <<>>
    /\ event = NoEvent
    /\ call \in [board : Boards, symbol : {"X", "O"}, returned : {FALSE}, result : {FALSE}]

CheckWin ==
    /\ ~call.returned
    /\ call' = [call EXCEPT !.returned = TRUE,
                            !.result = check_win(call.board, call.symbol)]
    /\ UNCHANGED <<games, stats, active_connections, sock, tasks, event>>

NextCheckWin == CheckWin

SpecCheckWin == InitCheckWin /\ [][NextCheckWin]_vars

\* The same handlers with viewers connected.  Requests are drawn from two
\* identities and the top row of the board, which leaves room for the
\* viewers' states; a send may raise.
ViewerUsers == {"u1", "u2"}
ViewerRows == {0}

CreateGameV == \E game_id \in IdPool : create_game("u1", OneDraw(game_id), {})
JoinGameV ==
    \E user \in ViewerUsers, game_id \in RequestIds, fail \in BOOLEAN :
        join_game(user, game_id, fail, {})
StartGameV ==
    \E user \in ViewerUsers, game_id \in RequestIds, fail \in BOOLEAN :
        start_game(user, game_id, fail, {})
MakeMoveV ==
    \E user \in ViewerUsers, game_id \in RequestIds, row \in ViewerRows, col \in Idx,
       fail \in BOOLEAN :
        make_move(user, game_id, row, col, fail, {})
WsConnect ==
    \E ws \in Sockets, game_id \in RequestIds : ws_connect(ws, game_id, FALSE)
WsFirstSend == \E ws \in Sockets, fail \in BOOLEAN : ws_first_send(ws, fail)
WsDisconnect == \E ws \in Sockets : ws_disconnect(ws)
Collect == \E ws \in Sockets : collect(ws)
BroadcastStep == \E i \in 1..MaxTasks, fail \in BOOLEAN : broadcast_step(i, fail)

NextViewers ==
    \/ CreateGameV \/ JoinGameV \/ StartGameV \/ MakeMoveV
    \/ WsConnect \/ WsFirstSend \/ WsDisconnect \/ Collect \/ BroadcastStep

SpecViewers == Init /\ [][NextViewers]_vars

\* The registry under three viewer sockets: connects, disconnects, freed
\* socket objects, and the broadcasts of join-game and start-game.
RegistrySockets == {"s1", "s2", "s3"}

InitRegistry == Start(RegistrySockets)

WsConnectR ==
    \E ws \in RegistrySockets, game_id \in RequestIds : ws_connect(ws, game_id, FALSE)
WsFirstSendR == \E ws \in RegistrySockets, fail \in BOOLEAN : ws_first_send(ws, fail)
WsDisconnectR == \E ws \in RegistrySockets : ws_disconnect(ws)
CollectR == \E ws \in RegistrySockets : collect(ws)

NextRegistry ==
    \/ CreateGameV \/ JoinGameV \/ StartGameV
    \/ WsConnectR \/ WsFirstSendR \/ WsDisconnectR \/ CollectR \/ BroadcastStep

SpecRegistry == InitRegistry /\ [][NextRegistry]_vars

\* The handlers with a store whose calls may raise, and one viewer (so that a
\* broadcast has one send, made in the handler's step).  Requests
\* are drawn from two identities and five cells (the top row and two cells of
\* the middle row, enough for a line); at most one store call raises in a
\* request, apart from the lookups of create_game, each of which may.
FaultUsers == {"u1", "u2"}
FaultCells == {<<0, 0>>, <<0, 1>>, <<0, 2>>, <<1, 0>>, <<1, 1>>}
FaultSockets == {"s1"}

\* The lookups one create-game makes at most.
MaxLookups == 2

\* No tally is counted beyond this.
MaxTally == 3

OneFault(calls) == {{}} \cup {{c} : c \in calls}

Draws == UNION {[1..n -> [id : IdPool, down : BOOLEAN]] : n \in 1..MaxLookups}

tallies_below(n) ==
    \A row \in stats : row.wins < n /\ row.losses < n /\ row.draws < n

InitFaults == Start(FaultSockets)

CreateGameF ==
    \E draws \in Draws, f \in OneFault({"insert"}) : create_game("u1", draws, f)
JoinGameF ==
    \E user \in FaultUsers, game_id \in RequestIds,
       f \in OneFault({"select", "update", "reselect"}) :
        join_game(user, game_id, FALSE, f)
StartGameF ==
    \E user \in FaultUsers, game_id \in RequestIds,
       f \in OneFault({"select", "update", "reselect"}) :
        start_game(user, game_id, FALSE, f)
MakeMoveF ==
    /\ tallies_below(MaxTally)
    /\ \E user \in FaultUsers, game_id \in RequestIds, rc \in FaultCells,
          f \in OneFault(StoreCalls \ {"insert"}) :
           make_move(user, game_id, rc[1], rc[2], FALSE, f)
WsConnectF ==
    \E ws \in FaultSockets, game_id \in RequestIds, down \in BOOLEAN :
        ws_connect(ws, game_id, down)
WsFirstSendF == \E ws \in FaultSockets : ws_first_send(ws, FALSE)
WsDisconnectF == \E ws \in FaultSockets : ws_disconnect(ws)
CollectF == \E ws \in FaultSockets : collect(ws)

NextFaults ==
    \/ CreateGameF \/ JoinGameF \/ StartGameF \/ MakeMoveF
    \/ WsConnectF \/ WsFirstSendF \/ WsDisconnectF \/ CollectF

SpecFaults == InitFaults /\ [][NextFaults]_vars

----------------------------------------------------------------------------
(* Vocabulary of the properties *)

\* The 3 rows, 3 columns and 2 diagonals, cell by cell.
Lines ==
    {{<<0, 0>>, <<0, 1>>, <<0, 2>>}, {<<1, 0>>, <<1, 1>>, <<1, 2>>},
     {<<2, 0>>, <<2, 1>>, <<2, 2>>}, {<<0, 0>>, <<1, 0>>, <<2, 0>>},
     {<<0, 1>>, <<1, 1>>, <<2, 1>>}, {<<0, 2>>, <<1, 2>>, <<2, 2>>},
     {<<0, 0>>, <<1, 1>>, <<2, 2>>}, {<<0, 2>>, <<1, 1>>, <<2, 0>>}}

HasLine(board, s) == \E L \in Lines : \A p \in L : board[p[1]][p[2]] = s

Marks(board) == {p \in Idx \X Idx : board[p[1]][p[2]] # None}

IsFull(board) == Marks(board) = Idx \X Idx

\* The step just taken accepted a request of kind op.
Accepted(op) == event'.op = op /\ event'.status = "200"

\* The step just taken rejected a request of kind op.
Rejected(op) == event'.op = op /\ event'.status # "200"

\* The symbol the identity of the accepted request plays in the game r.
MoverSymbol(r) == IF event'.user = r.creator_id THEN "X" ELSE "O"

\* P holds of every stored game and of what the step makes of it.
EachGame(P(_, _)) ==
    \A r \in games :
        /\ \E r2 \in games' : r2.id = r.id
        /\ \A r2 \in games' : r2.id = r.id => P(r, r2)

----------------------------------------------------------------------------
(* C1 *)

C1_Keeps(r, r2) ==
    \A i \in Idx, j \in Idx :
        r.board[i][j] \in {"X", "O"} => r2.board[i][j] = r.board[i][j]

\* C1: a cell of a stored board that holds "X" or "O" holds the same mark
\* after every step: no request overwrites or clears a set cell.
C1_CellsKeepTheirMark == [][EachGame(C1_Keeps)]_vars

\* A move on an occupied cell of a board with two marks was just rejected.
C1_Witness ==
    \E r \in games :
        /\ event.op = "make_move" /\ event.detail = "cell occupied"
        /\ Cardinality(Marks(r.board)) >= 2

----------------------------------------------------------------------------
(* C2 *)

C2_Step(r, r2) ==
    /\ Accepted("make_move") =>
          /\ r.game_started
          /\ event'.user = r.current_turn
          /\ Marks(r.board) = {} => event'.user = r.creator_id
          /\ r2.winner = None =>
                /\ r2.current_turn # event'.user
                /\ r2.current_turn =
                      (IF event'.user = r.creator_id THEN r.opponent_id ELSE r.creator_id)
    /\ r2.current_turn # r.current_turn => Accepted("make_move")
    /\ (r2.game_started /\ ~r.game_started) => Accepted("start_game")

\* C2: a move is accepted only in a started game and only from the identity
\* whose turn is stored; the first one is the creator's; after an accepted
\* move that leaves the game undecided the stored turn is the other player's;
\* the stored turn changes in no other step, and the game is started by no
\* step but an accepted start-game.
C2_TurnOrder == [][EachGame(C2_Step)]_vars

\* The opponent's move was just accepted and the turn is back with the creator.
C2_Witness ==
    \E r \in games :
        /\ event.op = "make_move" /\ event.status = "200"
        /\ event.user = r.opponent_id
        /\ r.current_turn = r.creator_id
        /\ Cardinality(Marks(r.board)) = 2

----------------------------------------------------------------------------
(* C3 *)

\* C3: the stored turn of an undecided game is the creator or the opponent
\* who joined, and the stored turn is absent exactly when the winner is set.
C3_TurnIsAPlayer ==
    \A r \in games :
        /\ r.current_turn # None => r.current_turn \in {r.creator_id, r.opponent_id}
        /\ r.current_turn = None <=> r.winner # None

\* The opponent's move was just accepted and decided the game.
C3_Witness ==
    \E r \in games :
        /\ event.op = "make_move" /\ event.status = "200"
        /\ r.winner = "O" /\ r.current_turn = None

----------------------------------------------------------------------------
(* C4 *)

C4_Frozen(r, r2) ==
    r.winner # None =>
        /\ r2.board = r.board
        /\ r2.winner = r.winner
        /\ r2.current_turn = r.current_turn

\* C4: once the winner of a game is set, no step changes its stored board,
\* winner or turn.
C4_FinishedIsFinal == [][EachGame(C4_Frozen)]_vars

\* A request on a decided game was just answered.
C4_Witness ==
    \E r \in games :
        /\ r.winner # None
        /\ event.op \in {"make_move", "join_game", "start_game"}
        /\ event.status # "200"

----------------------------------------------------------------------------
(* C5 *)

C5_Step(r, r2) ==
    Accepted("make_move") =>
        /\ (IsFull(r2.board) /\ HasLine(r2.board, MoverSymbol(r))) =>
              r2.winner = MoverSymbol(r)
        /\ r2.winner = "draw" =>
              IsFull(r2.board) /\ ~HasLine(r2.board, MoverSymbol(r))

\* C5: an accepted move that completes a line of the mover's symbol on the
\* last empty cell stores the mover's symbol as winner; "draw" is stored only
\* for a full board without a line of the mover's symbol.
C5_WinBeforeDraw == [][EachGame(C5_Step)]_vars

\* The ninth move completed a line: the board is full and the winner is X.
C5_Witness ==
    \E r \in games :
        /\ event.op = "make_move" /\ event.status = "200"
        /\ IsFull(r.board) /\ r.winner = "X"

----------------------------------------------------------------------------
(* C6 *)

\* A rejected make-move writes nothing and sends nothing.
C6_NoEffect ==
    Rejected("make_move") =>
        /\ UNCHANGED <<games, stats, tasks, active_connections, sock>>
        /\ event'.ws = None /\ event'.sent = None /\ event'.msg = NoMsg

\* The part of C6 that the code keeps: a rejected make-move leaves the game
\* rows and the stats rows as they were and broadcasts nothing.
C6_RejectedMoveChangesNothing == [][C6_NoEffect]_vars

\* C6: a rejected make-move leaves the game rows and the stats rows as they
\* were and broadcasts nothing, and a move on a cell of the board of a
\* finished game is rejected with an outcome of its own, GameOver.
C6_RejectedWithGameOver ==
    [][/\ C6_NoEffect
       /\ \A r \in games :
             (Rejected("make_move") /\ r.winner # None
                /\ event'.detail # "bad coordinates") => event'.detail = "game over"]_vars

\* A move on a finished game was just rejected.
C6_Witness ==
    \E r \in games :
        /\ r.winner # None
        /\ event.op = "make_move" /\ event.status = "400"
        /\ event.detail = "not your turn"

----------------------------------------------------------------------------
(* C7 *)

Counters == {"wins", "losses", "draws"}

\* The counter f of the identity u, 0 when u has no row.
Tally(st, u, f) ==
    IF \E row \in st : row.user_id = u
       THEN (CHOOSE row \in st : row.user_id = u)[f]
       ELSE 0

\* The counters a game decided as r2 adds 1 to.
Credits(r2) ==
    CASE r2.winner = "X" -> {<<r2.creator_id, "wins">>, <<r2.opponent_id, "losses">>}
      [] r2.winner = "O" -> {<<r2.opponent_id, "wins">>, <<r2.creator_id, "losses">>}
      [] r2.winner = "draw" -> {<<r2.creator_id, "draws">>, <<r2.opponent_id, "draws">>}
      [] OTHER -> {}

C7_Step(r, r2) ==
    (Accepted("make_move") /\ r2.winner # None) =>
        /\ \A u \in Users, f \in Counters :
              Tally(stats', u, f) =
                 Tally(stats, u, f) + (IF <<u, f>> \in Credits(r2) THEN 1 ELSE 0)
        /\ \A u \in Users :
              Cardinality({row \in stats' : row.user_id = u}) =
                 (IF u \in {r2.creator_id, r2.opponent_id}
                     \/ \E row \in stats : row.user_id = u THEN 1 ELSE 0)

\* C7: an accepted move that decides the game adds 1 to the winner's wins and
\* the loser's losses, or to both players' draws, and to no other counter,
\* creating the rows that do not exist; no other step changes a stats row.
C7_Tallies ==
    [][/\ EachGame(C7_Step)
       /\ (\A r2 \in games' : ~(Accepted("make_move") /\ r2.winner # None))
             => stats' = stats]_vars

\* The creator "u1", who had a row, has just won against an opponent whose
\* row was created by this move.
C7_Witness ==
    \E r \in games :
        /\ event.op = "make_move" /\ event.status = "200"
        /\ r.winner = "X" /\ r.creator_id = "u1"
        /\ \E row \in stats : row.user_id = "u1" /\ row.wins = 2
        /\ \E row \in stats :
              row.user_id = r.opponent_id /\ row.losses = 1 /\ row.wins = 0

----------------------------------------------------------------------------
(* C8 *)

C8_Step(r, r2) ==
    /\ (r2.game_started /\ ~r.game_started) => Accepted("start_game")
    /\ Accepted("start_game") =>
          /\ r.opponent_id # None
          /\ ~r.game_started
          /\ event'.user = r.opponent_id
          /\ r2.game_started
          /\ r2.current_turn = r.creator_id
    /\ Rejected("start_game") => r2 = r
    /\ r2.game_started => r2.opponent_id # None

\* C8: a game becomes started only by an accepted start-game; start-game is
\* accepted only from the opponent of a game that has one and is not started,
\* and leaves the turn with the creator; a rejected start-game changes
\* nothing; a started game has an opponent.
C8_StartedByOpponentOnly == [][EachGame(C8_Step)]_vars

\* The opponent's start-game was just accepted.
C8_Witness ==
    \E r \in games :
        /\ event.op = "start_game" /\ event.status = "200"
        /\ event.user = r.opponent_id
        /\ r.game_started /\ r.current_turn = r.creator_id

----------------------------------------------------------------------------
(* C9 *)

C9_Step(r, r2) ==
    /\ r2.creator_id = r.creator_id
    /\ r.opponent_id # None => r2.opponent_id = r.opponent_id
    /\ r2.opponent_id # r2.creator_id
    /\ r2.opponent_id # r.opponent_id =>
          Accepted("join_game") /\ r2.opponent_id = event'.user

\* C9: the creator of a game never changes, its opponent never changes once
\* set and is set only by an accepted join-game to the caller, and the
\* opponent is never the creator.
C9_TwoPlayers == [][EachGame(C9_Step)]_vars

\* A join-game on a game that has its opponent was just rejected.
C9_Witness ==
    \E r \in games :
        /\ r.opponent_id # None
        /\ event.op = "join_game" /\ event.status = "400"

----------------------------------------------------------------------------
(* C10 *)

\* The sends the suspended broadcasts still have to make: <<message, socket>>.
Pending ==
    UNION {{<<tasks[i].msg, tasks[i].todo[k]>> : k \in 1..Len(tasks[i].todo)}
              : i \in 1..Len(tasks)}

\* The step just taken called send_json(m) on the socket ws.
SentNow(ws, m) == event'.ws = ws /\ event'.msg = m /\ event'.sent \in {"ok", "error"}

\* The sockets registered for game_id whose connection is up.
OpenViewers(game_id) ==
    IF game_id \in DOMAIN active_connections
       THEN {active_connections[game_id][k] : k \in 1..Len(active_connections[game_id])}
               \cap {ws \in DOMAIN sock : connected(ws)}
       ELSE {}

\* C10: the step that accepts a join-game, start-game or make-move sends the
\* message tagged "game" with the record the store holds after its write to
\* the first registered open viewer of that game and owes it to all the
\* others; a send that is owed stays owed until it is made, unless the
\* connection of the socket is no longer up.
C10_AcceptedIsBroadcast ==
    [][/\ \A r2 \in games' :
             (Accepted("join_game") \/ Accepted("start_game") \/ Accepted("make_move")) =>
                 \A ws \in OpenViewers(r2.id) :
                     \/ SentNow(ws, GameMsg(r2))
                     \/ <<GameMsg(r2), ws>> \in Pending'
       /\ \A p \in Pending :
             sock'[p[2]].state \in {"greeting", "open"} =>
                 \/ p \in Pending'
                 \/ event'.op = "broadcast" /\ SentNow(p[2], p[1])]_vars

\* A suspended broadcast has just delivered the record the store holds, with
\* a move on its board, to a viewer further down the registry.
C10_Witness ==
    \E r \in games :
        /\ event.op = "broadcast" /\ event.sent = "ok"
        /\ event.msg = GameMsg(r)
        /\ Marks(r.board) # {}
        /\ event.ws # Head(active_connections[r.id])

----------------------------------------------------------------------------
(* C11 *)

\* C11: a send of a broadcast that raises takes no other send away: every
\* send owed to another socket that is not collected is still owed after
\* the step, and when the failing send is the first of its broadcast, the
\* message is owed to every other open viewer registered for the game.
C11_FailureIsIsolated ==
    [][(event'.sent = "error" /\ event'.op # "ws_first_send") =>
          /\ \A p \in Pending :
                (p # <<event'.msg, event'.ws>> /\ sock[p[2]].state # "collected") =>
                    p \in Pending'
          /\ \A r2 \in games' :
                (event'.status = "200" /\ event'.msg = GameMsg(r2)) =>
                    \A ws \in OpenViewers(r2.id) \ {event'.ws} :
                        <<GameMsg(r2), ws>> \in Pending']_vars

\* The first send of a broadcast has just raised on an open socket, and the
\* same message is owed to another open socket further down the registry.
C11_Witness ==
    /\ event.op \in {"join_game", "start_game", "make_move"}
    /\ event.sent = "error"
    /\ connected(event.ws)
    /\ \E p \in Pending :
          p[1] = event.msg /\ p[2] # event.ws /\ connected(p[2])

----------------------------------------------------------------------------
(* C12 *)

\* The sockets whose handles the registry holds for game_id.
Handles(reg, game_id) ==
    IF game_id \in DOMAIN reg
       THEN {reg[game_id][k] : k \in 1..Len(reg[game_id])}
       ELSE {}

\* C12: a broadcast leaves in the registry entry of its game no handle whose
\* socket was closed before it began and no handle on which its send raised.
\* Stated at the step in which a broadcast ends, in its handler's own step
\* or as a resumed broadcast: no handle of the entry is of a socket that was
\* closed before the step when the handler's step made no send, and the
\* handle on which the last send has just raised is not in the entry.
C12_BroadcastSweeps ==
    [][/\ \A r2 \in games' :
             ((Accepted("join_game") \/ Accepted("start_game") \/ Accepted("make_move"))
                /\ event'.ws = None) =>
                 \A ws \in Handles(active_connections', r2.id) :
                     sock[ws].state \notin {"closed", "collected"}
       /\ (/\ event'.sent = "error"
           /\ \/ /\ Accepted("join_game") \/ Accepted("start_game") \/ Accepted("make_move")
                 /\ tasks' = tasks
              \/ event'.op = "broadcast" /\ Len(tasks') < Len(tasks)) =>
              event'.ws \notin Handles(active_connections', event'.msg.id)]_vars

\* A broadcast has just ended without a send, and the registry still holds
\* the handle of a collected socket.
C12_Witness ==
    /\ event.op \in {"join_game", "start_game", "make_move"}
    /\ event.status = "200" /\ event.ws = None
    /\ \E r \in games : \E ws \in Handles(active_connections, r.id) :
          sock[ws].state = "collected"

----------------------------------------------------------------------------
(* C13 *)

\* C13: the step in which a viewer socket disconnects takes its handle out
\* of the registry entry of its game, and takes the entry out when no socket
\* of the game is in its receive loop any more.
C13_DisconnectUnregisters ==
    [][event'.op = "ws_disconnect" =>
          LET game_id == sock[event'.ws].game_id IN
          /\ event'.ws \notin Handles(active_connections', game_id)
          /\ (\A ws \in DOMAIN sock :
                 sock'[ws].game_id = game_id =>
                     sock'[ws].state \notin {"greeting", "open"})
                => game_id \notin DOMAIN active_connections']_vars

\* The only viewer of a game has just disconnected, and the registry entry
\* of the game still holds its handle.
C13_Witness ==
    /\ event.op = "ws_disconnect"
    /\ event.ws \in Handles(active_connections, sock[event.ws].game_id)
    /\ \A ws \in DOMAIN sock : ~connected(ws)

----------------------------------------------------------------------------
(* C14 *)

\* C14: check_win(board, symbol) returns True exactly when one of the 3 rows,
\* 3 columns and 2 diagonals holds symbol in its three cells, for every board
\* and either symbol; on the empty board it returns False.
C14_CheckWinIsALine ==
    call.returned =>
        /\ call.result <=> HasLine(call.board, call.symbol)
        /\ call.board = initial_board => ~call.result

\* check_win has returned True for O on a board whose only line of O is the
\* diagonal from the top right.
C14_Witness ==
    /\ call.returned /\ call.result /\ call.symbol = "O"
    /\ \A i \in Idx : call.board[i][2 - i] = "O"
    /\ Cardinality({p \in Idx \X Idx : call.board[p[1]][p[2]] = "O"}) = 3

----------------------------------------------------------------------------
(* C15 *)

\* The counters the step adds 1 to.
Advanced == {p \in Users \X Counters : Tally(stats', p[1], p[2]) = Tally(stats, p[1], p[2]) + 1}

\* C15: a make-move that decides the game and in which one of the two tally
\* updates raises (one tally is counted, the other is not) is answered with
\* success, its write of board, turn and winner is in the store, the tally
\* that was counted is one the result credits, and the record is broadcast.
C15_TallyFailureIsSwallowed ==
    [][(event'.op = "make_move" /\ Cardinality(Advanced) = 1) =>
          /\ event'.status = "200"
          /\ \E r \in games, r2 \in games' :
                /\ r2.id = r.id
                /\ r.winner = None /\ r2.winner # None
                /\ r2.current_turn = None
                /\ Cardinality(Marks(r2.board)) = Cardinality(Marks(r.board)) + 1
                /\ Advanced \subseteq Credits(r2)
                /\ \A ws \in OpenViewers(r2.id) :
                      \/ SentNow(ws, GameMsg(r2))
                      \/ <<GameMsg(r2), ws>> \in Pending']_vars

\* The creator's winning move was just accepted and sent to the viewer; the
\* update of the creator's wins raised, and the opponent's loss was counted.
C15_Witness ==
    \E r \in games :
        /\ event.op = "make_move" /\ event.status = "200"
        /\ event.sent = "ok" /\ event.msg = GameMsg(r)
        /\ r.winner = "X"
        /\ Tally(stats, r.creator_id, "wins") = Tally(earlier_stats, r.creator_id, "wins")
        /\ Tally(stats, r.opponent_id, "losses") = 1

----------------------------------------------------------------------------
(* C17 *)

\* What the counters of the identity u have been advanced by since the start.
Gained(u) ==
    (Tally(stats, u, "wins") - Tally(earlier_stats, u, "wins"))
    + (Tally(stats, u, "losses") - Tally(earlier_stats, u, "losses"))
    + (Tally(stats, u, "draws") - Tally(earlier_stats, u, "draws"))

\* C17: whatever the requests on the one game and whichever store calls
\* raise, the game is tallied at most once: the counters of each identity
\* gain at most 1 in all.
C17_TalliedAtMostOnce == \A u \in Users : Gained(u) <= 1

\* The game is stored as won by X, and its creator's wins and its opponent's
\* losses have each been counted twice.
C17_Witness ==
    \E r \in games :
        /\ r.winner = "X"
        /\ Tally(stats, r.creator_id, "wins") = Tally(earlier_stats, r.creator_id, "wins") + 2
        /\ Tally(stats, r.opponent_id, "losses") = 2

----------------------------------------------------------------------------
(* C19 *)

\* C19: a create-game in which an id-uniqueness lookup raised made that one
\* lookup and no other: the failure is reported or passed over, not retried.
C19_LookupNotRetried ==
    [][(event'.op = "create_game" /\ event'.failed > 0) => event'.lookups = 1]_vars

\* A create-game whose first lookup raised has just inserted the game after
\* a second lookup.
C19_Witness ==
    /\ event.op = "create_game" /\ event.status = "200"
    /\ event.failed = 1 /\ event.lookups = 2
    /\ games # {}

----------------------------------------------------------------------------
(* C16 *)

\* The turn check of make_move lets through a move of the creator and a move
\* of the opponent on the same stored record r.
BothPass(r) == ~not_your_turn(r, r.creator_id) /\ ~not_your_turn(r, r.opponent_id)

\* C16, as the code has it: on no stored record of a started game does the
\* turn check let both players through; two moves, one of each player, that
\* are checked against the same record are never both accepted.
C16_OnePlayerPassesTurnCheck == \A r \in games : r.game_started => ~BothPass(r)

\* C16 as stated: on the record of a started game that is not decided, the
\* turn check lets through a move of each of its two players.
C16_RaceWindow ==
    \A r \in games : (r.game_started /\ r.winner = None) => BothPass(r)

\* The move of the player whose turn it is not was just rejected by the turn
\* check, in a game that is under way and not decided.
C16_Witness ==
    \E r \in games :
        /\ event.op = "make_move" /\ event.detail = "not your turn"
        /\ r.game_started /\ r.winner = None
        /\ Cardinality(Marks(r.board)) = 1
        /\ ~not_your_turn(r, r.opponent_id)

----------------------------------------------------------------------------
(* C20 *)

\* C20: the stored winner agrees with the stored board: "X" or "O" only with
\* a line of that symbol, "draw" only on a full board without a line, absent
\* only on a board without a line that has an empty cell; and no stored
\* board has a line of each symbol.
C20_WinnerAgreesWithBoard ==
    \A r \in games :
        /\ r.winner = "X" => HasLine(r.board, "X")
        /\ r.winner = "O" => HasLine(r.board, "O")
        /\ r.winner = "draw" =>
              IsFull(r.board) /\ ~HasLine(r.board, "X") /\ ~HasLine(r.board, "O")
        /\ r.winner = None =>
              ~IsFull(r.board) /\ ~HasLine(r.board, "X") /\ ~HasLine(r.board, "O")
        /\ ~(HasLine(r.board, "X") /\ HasLine(r.board, "O"))

\* A game has ended in a draw: its board is full.
C20_Witness ==
    \E r \in games : r.winner = "draw" /\ Cardinality(Marks(r.board)) = 9

----------------------------------------------------------------------------
(* C18 *)

\* C18: every viewer socket that is in its receive loop has its handle in
\* the registry entry of its game id, whatever connects, disconnects, error
\* exits and broadcasts have been interleaved: the cleanup run for one socket
\* takes out no handle of a socket still connected, and not the entry.
C18_ConnectedIsRegistered ==
    \A ws \in DOMAIN sock :
        sock[ws].state = "open" =>
            /\ sock[ws].game_id \in DOMAIN active_connections
            /\ ws \in Handles(active_connections, sock[ws].game_id)

\* A disconnect has just taken the handle of a freed socket out of the entry
\* of a game that another socket is still connected to.
C18_Witness ==
    /\ event.op = "ws_disconnect"
    /\ \E dead \in DOMAIN sock, ws \in DOMAIN sock :
          /\ sock[dead].state = "collected"
          /\ dead \notin Handles(active_connections, sock[dead].game_id)
          /\ sock[ws].state = "open"
          /\ sock[ws].game_id = sock[dead].game_id
          /\ sock[event.ws].game_id = sock[ws].game_id

----------------------------------------------------------------------------
(* C21 *)

\* The cells of board that hold the symbol s.
CellsOf(board, s) == {p \in Idx \X Idx : board[p[1]][p[2]] = s}

\* The number of X marks minus the number of O marks.
Lead(board) == Cardinality(CellsOf(board, "X")) - Cardinality(CellsOf(board, "O"))

C21_Step(r, r2) ==
    /\ r2.board # r.board =>
          /\ Accepted("make_move")
          /\ event'.user \in {r.creator_id, r.opponent_id}
          /\ \E p \in Idx \X Idx :
                /\ r.board[p[1]][p[2]] = None
                /\ r2.board =
                      [r.board EXCEPT ![p[1]][p[2]] =
                          IF event'.user = r.creator_id THEN "X" ELSE "O"]
    /\ (r.winner = None /\ r2.winner # None) =>
          (event'.user = r.opponent_id <=> r2.winner = "O")
    /\ Lead(r2.board) \in {0, 1}
    /\ Lead(r2.board) = 0 <=> (r2.current_turn = r2.creator_id \/ r2.winner = "O")

\* C21: a stored board changes only by an accepted move, which puts one "X"
\* on an empty cell when the mover is the creator and one "O" when it is the
\* opponent; a game ends on the opponent's move exactly when "O" wins; the
\* number of X marks minus the number of O marks is 0 or 1, and it is 0
\* exactly when the turn is the creator's or the game ended on the
\* opponent's move.
C21_MarksFollowTheMovers == [][EachGame(C21_Step)]_vars

\* The opponent's third move has just ended the game: three marks of each
\* symbol are on the board.
C21_Witness ==
    \E r \in games :
        /\ event.op = "make_move" /\ event.status = "200"
        /\ event.user = r.opponent_id
        /\ r.winner = "O"
        /\ Cardinality(CellsOf(r.board, "X")) = 3
        /\ Cardinality(CellsOf(r.board, "O")) = 3

====
